---- MODULE Spec2Model ----
(***************************************************************************)
(* A model of async-template-literal-engine (src/template-engine.js).      *)
(*                                                                         *)
(* The engine runs on Node's event loop.  One action of the model is one   *)
(* run-to-completion piece of a handler: the code between two awaits.      *)
(* The continuation of an await on an already settled promise is a         *)
(* microtask, and Node drains the microtask queue before it runs the next  *)
(* I/O completion or timer callback; the actions that model I/O            *)
(* completions, timers and external events are therefore guarded by        *)
(* ~MicroPending.                                                          *)
(***************************************************************************)
EXTENDS Integers, Sequences, FiniteSets, TLC

\* ------------------------------------------------------------ bounds
MaxRenders == 2
MaxMtime == 2
MaxWrites == 1
MaxRunRenders == 2

Renders == 1..MaxRenders
Mtimes == 1..MaxMtime
Paths == {"a", "b"}

\* What a template file can hold.  The text decides whether vm.Script
\* accepts it and what the compiled async function does when called.
\*   v1, v2  : plain text, renders at once (no await in the body)
\*   bad     : not a valid template literal body: new vm.Script throws
\*   throw   : an embedded expression throws an Error
\*   str     : an embedded expression throws a value that is no Error
\*   slow    : the body awaits something that resolves later, or never
\*   spin    : an embedded expression loops synchronously forever
\*   nest    : the body awaits include() of the other template
Contents == {"v1", "v2", "bad", "throw", "str", "slow", "spin", "nest"}

NoFile == [exists |-> FALSE, mtime |-> 0, content |-> "none"]
Files == {NoFile} \cup [exists : {TRUE}, mtime : Mtimes, content : Contents]

NoEntry == [mtime |-> 0, src |-> "none", id |-> 0]
NoErr == [type |-> "none", path |-> "none", stack |-> FALSE]
Pending == [kind |-> "pending", val |-> "none", err |-> NoErr]

VARIABLES
    file,        \* the file system: path -> file (the environment)
    file_cache,  \* path -> cache entry {mtime, script}
    holder,      \* path -> the render holding Mutex(path), 0 when free
    pc,          \* render -> where the include call stands
    rpath,       \* render -> resolved filepath
    hasCb,       \* render -> whether a callback was passed
    st_mtime,    \* render -> mtime returned by fs.stat
    val,         \* render -> result of the race
    err,         \* render -> the error caught at the catch block
    outcome,     \* render -> what the returned promise settled with
    cbCalls,     \* render -> the callback invocations, in order
    timers,      \* pending setTimeout callbacks, in creation order
    evalPending, \* render -> the template body is still awaiting
    ran,         \* render -> the compiled unit the render executed
    compiles,    \* path -> number of cache entries inserted (sentinel)
    chg,         \* path -> kind of the last external file change
    sinceChg,    \* path -> entries inserted since the last file change
    seen,        \* render -> stat'd after the last change of its file
    writes,      \* number of external file changes so far
    waited,      \* render -> found Mutex(path) held when it asked for it
    child,       \* render -> the nested render its template awaits, or 0
    stack,       \* error.stack of the error being surfaced, as lines
    stack0,      \* the trace the error was thrown with
    level,       \* include levels whose catch block the error passed
    extension,   \* params.extension
    views,       \* params.views
    p_op,        \* the operation that resolved a name last
    p_name,      \* the template name it was given
    p_abs,       \* whether that name was absolute
    p_settings,  \* the extension and directory that call used
    filepath,    \* the path it resolved to
    always_inject, \* params.inject
    s_kind,      \* session -> how the include call was made
    s_parent,    \* session -> the session whose template made the call
    s_opts,      \* session -> the options argument of the call
    s_over,      \* session -> include_options given by the parent
    s_ctx,       \* session -> the context object of line 55-73
    s_state,     \* session -> free, run, done or failed
    locals,      \* session -> own properties of its locals object
    bags,        \* import session -> own properties of its __exports
    own,         \* import session -> what its own template exported
    ret,         \* the last helper call and what it returned
    calls        \* number of helper calls so far

mainVars == <<file, file_cache, holder, pc, rpath, hasCb, st_mtime, val,
              err, outcome, cbCalls, timers, evalPending, ran, compiles,
              chg, sinceChg, seen, writes, waited, child>>
normVars == <<stack, stack0, level>>
pathVars == <<extension, views, p_op, p_name, p_abs, p_settings, filepath>>
ctxVars == <<always_inject, s_kind, s_parent, s_opts, s_over, s_ctx, s_state,
             locals, bags, own, ret, calls>>
auxVars == <<normVars, pathVars, ctxVars>>
vars == <<mainVars, auxVars>>

\* ------------------------------------------------------------ helpers
\* new vm.Script(...) accepts the text
Compilable(c) == c # "bad"

\* the rendered text of a compiled unit: it reflects the source text
Output(src) == src

MkErr(t, p) == [type |-> t, path |-> p, stack |-> t # "NonError"]

\* faulty variant: I/O completions run before pending continuations
MicroPending_Never == FALSE

\* the nested include that the template of r awaits has settled while
\* the promise of r is still pending
ChildSettled(r) ==
    pc[r] = "eval" /\ child[r] # 0 /\ pc[child[r]] = "done"

\* a continuation is queued as a microtask
MicroPending ==
    \E r \in Renders : pc[r] \in {"loaded", "deliver", "catch"} \/ ChildSettled(r)

\* a synchronous endless loop in a template body never returns to the loop
Blocked == \E r \in Renders : pc[r] = "spin"

Idle == ~MicroPending /\ ~Blocked

NormIdle == stack = <<>> /\ stack0 = <<>> /\ level = 0

\* ------------------------------------------------------------ paths
\* A template name is its sequence of characters; "t" and "x" stand for
\* letters, "." for the dot.  A name is relative (no separator) or the
\* same characters behind a leading separator (p_abs).
Chars == {"t", "x", "."}
MaxName == 3
Names == UNION {[1..n -> Chars] : n \in 0..MaxName}
Exts == {<<"t">>, <<"x", "t">>}
Dirs == {"/v", "/w"}
NoPath == [dir |-> "none", file |-> <<>>]
PathSettings == [extension : Exts, views : Dirs]
\* options.settings is undefined
NoSettings == [extension |-> <<>>, views |-> "none"]

\* params.extension and params.views of line 11-12; nothing resolved yet
PathIdle ==
    /\ extension = <<"t">>
    /\ views = "/v"
    /\ p_op = "none"
    /\ p_name = <<>>
    /\ p_abs = FALSE
    /\ p_settings = [extension |-> <<"t">>, views |-> "/v"]
    /\ filepath = NoPath

\* ------------------------------------------------------------ sessions
\* One session is one include(...) call: made by the host (top), by a
\* template's include() helper, or by a template's import_vars() helper.
MaxSessions == 3
MaxCalls == 3
Sessions == 1..MaxSessions

\* option names: two ordinary names and one that is also a helper's name
OptKeys == {"x", "y", "log"}
HelperNames == {"log"}
OptVals == {"undef", "0", "1", "2"}
\* an options object: its ordinary properties and its __exports property
\* (0: none, c: the bag made for import session c)
NoOpts == [v |-> [k \in OptKeys |-> "undef"], bag |-> 0]

\* property names used with set/get and export_var
LocalKeys == {"k", "constructor"}
Vals == {"1", "2"}
EmptyObject == [k \in LocalKeys |-> "absent"]
NoRet == [op |-> "none", sess |-> 0, key |-> "none", val |-> "none"]

\* no include call has been made: every session is free
CtxStart ==
    /\ always_inject = NoOpts
    /\ s_kind = [c \in Sessions |-> "free"]
    /\ s_parent = [c \in Sessions |-> 0]
    /\ s_opts = [c \in Sessions |-> NoOpts]
    /\ s_over = [c \in Sessions |-> NoOpts]
    /\ s_ctx = [c \in Sessions |-> NoOpts]
    /\ s_state = [c \in Sessions |-> "free"]
    /\ locals = [c \in Sessions |-> EmptyObject]
    /\ bags = [c \in Sessions |-> EmptyObject]
    /\ own = [c \in Sessions |-> EmptyObject]
    /\ ret = NoRet
    /\ calls = 0

\* the sessions are left out: no session exists
CtxIdle ==
    /\ always_inject = NoOpts
    /\ s_kind = <<>>
    /\ s_parent = <<>>
    /\ s_opts = <<>>
    /\ s_over = <<>>
    /\ s_ctx = <<>>
    /\ s_state = <<>>
    /\ locals = <<>>
    /\ bags = <<>>
    /\ own = <<>>
    /\ ret = NoRet
    /\ calls = 0

\* no include call has been made yet
RendersIdle ==
    /\ holder = [p \in Paths |-> 0]
    /\ pc = [r \in Renders |-> "idle"]
    /\ rpath = [r \in Renders |-> "none"]
    /\ hasCb = [r \in Renders |-> FALSE]
    /\ st_mtime = [r \in Renders |-> 0]
    /\ val = [r \in Renders |-> "none"]
    /\ err = [r \in Renders |-> NoErr]
    /\ outcome = [r \in Renders |-> Pending]
    /\ cbCalls = [r \in Renders |-> <<>>]
    /\ timers = <<>>
    /\ evalPending = [r \in Renders |-> FALSE]
    /\ ran = [r \in Renders |-> NoEntry]
    /\ chg = [p \in Paths |-> "none"]
    /\ sinceChg = [p \in Paths |-> 0]
    /\ seen = [r \in Renders |-> FALSE]
    /\ writes = 0
    /\ waited = [r \in Renders |-> FALSE]
    /\ child = [r \in Renders |-> 0]

\* the engine's own state right after construction (lines 9-15, no
\* preload) and before any include call
MainStart ==
    /\ file_cache = [p \in Paths |-> NoEntry]
    /\ compiles = [p \in Paths |-> 0]
    /\ RendersIdle

\* no template file at all
MainIdle == file = [p \in Paths |-> NoFile] /\ MainStart

\* the engine right after construction; the template files are whatever
\* the file system holds
InitWith(contents) ==
    /\ NormIdle
    /\ PathIdle
    /\ CtxIdle
    /\ file \in {fs \in [Paths -> Files] :
                    \A p \in Paths : fs[p].content \in contents[p]}
    /\ MainStart

\* ------------------------------------------------------------ include
\* include(filename, options, callback) is called (lines 50-74): the
\* synchronous part resolves the path and builds the context, then
\* load_template asks for Mutex(filepath) and suspends.
Render(r, p, cb) ==
    /\ Idle
    /\ pc[r] = "idle"
    /\ \A q \in Renders : q < r => pc[q] # "idle"
    /\ pc' = [pc EXCEPT ![r] = "lock"]
    /\ rpath' = [rpath EXCEPT ![r] = p]
    /\ hasCb' = [hasCb EXCEPT ![r] = cb]
    /\ waited' = [waited EXCEPT ![r] = holder[p] # 0]
    /\ UNCHANGED <<file, file_cache, holder, st_mtime, val, err, outcome,
                   cbCalls, timers, evalPending, ran, compiles, chg,
                   sinceChg, seen, writes, child>>
    /\ UNCHANGED auxVars

\* faulty variant: a mutex that never makes anyone wait
LockFree_Never(p) == TRUE

\* faulty variant: the mutex is skipped once the path has a cache entry
LockFree_Cached(p) == holder[p] = 0 \/ file_cache[p] # NoEntry

\* the mutex of a path can be taken when no render holds it
LockFree(p) == holder[p] = 0

\* await new Mutex(filepath).lock() returns (line 18); fs.stat is issued
Acquire(r) ==
    /\ ~Blocked
    /\ pc[r] = "lock"
    /\ LockFree(rpath[r])
    /\ holder' = [holder EXCEPT ![rpath[r]] = r]
    /\ pc' = [pc EXCEPT ![r] = "stat"]
    /\ UNCHANGED <<file, file_cache, rpath, hasCb, st_mtime, val, err,
                   outcome, cbCalls, timers, evalPending, ran, compiles,
                   chg, sinceChg, seen, writes, waited, child>>
    /\ UNCHANGED auxVars

\* faulty variant: an exit that leaves the mutex held
Unlocked_Keep(p) == holder

\* finally { unlock() } (lines 38-40)
Unlocked(p) == [holder EXCEPT ![p] = 0]

\* faulty variant: reload only when the file is newer than the entry
NeedsCompile_Newer(entry, m) == entry = NoEntry \/ m > entry.mtime

\* lines 21-22: no entry, or the stat'd mtime differs from the stored one
NeedsCompile(entry, m) == entry = NoEntry \/ m # entry.mtime

\* fs.stat completes (line 20), then lines 21-22 decide; on a cache hit
\* load_template unlocks and returns, on a failure it unlocks and throws
StatDone(r) ==
    /\ Idle
    /\ pc[r] = "stat"
    /\ LET p == rpath[r]
           f == file[p]
       IN  IF ~f.exists
           THEN /\ err' = [err EXCEPT ![r] = MkErr("IOError", p)]
                /\ pc' = [pc EXCEPT ![r] = "catch"]
                /\ holder' = Unlocked(p)
                /\ UNCHANGED <<st_mtime, seen>>
           ELSE /\ st_mtime' = [st_mtime EXCEPT ![r] = f.mtime]
                /\ seen' = [seen EXCEPT ![r] = TRUE]
                /\ err' = err
                /\ IF NeedsCompile(file_cache[p], f.mtime)
                   THEN pc' = [pc EXCEPT ![r] = "read"] /\ holder' = holder
                   ELSE pc' = [pc EXCEPT ![r] = "loaded"]
                        /\ holder' = Unlocked(p)
    /\ UNCHANGED <<file, file_cache, rpath, hasCb, val, outcome, cbCalls,
                   timers, evalPending, ran, compiles, chg, sinceChg,
                   writes, waited, child>>
    /\ UNCHANGED auxVars

\* faulty variant: the old entry stays until the new one is stored
AfterDelete_Keep(p) == file_cache

\* delete file_cache[filepath] (line 24), before the compile
AfterDelete(p) == [file_cache EXCEPT ![p] = NoEntry]

\* faulty variant: the entry is stored without the stat'd mtime
NewEntry_NoMtime(m, content, serial) == [mtime |-> 0, src |-> content, id |-> serial]

\* the entry stored by lines 25-35: the stat'd mtime and the new script
NewEntry(m, content, serial) == [mtime |-> m, src |-> content, id |-> serial]

\* fs.readFile completes (line 23); line 24 deletes the entry, lines 25-35
\* compile and insert, line 36 logs; the finally unlocks on every exit
ReadDone(r) ==
    /\ Idle
    /\ pc[r] = "read"
    /\ LET p == rpath[r]
           f == file[p]
       IN  /\ holder' = Unlocked(p)
           /\ IF ~f.exists
              THEN /\ err' = [err EXCEPT ![r] = MkErr("IOError", p)]
                   /\ pc' = [pc EXCEPT ![r] = "catch"]
                   /\ UNCHANGED <<file_cache, compiles, sinceChg>>
              ELSE IF ~Compilable(f.content)
              THEN /\ file_cache' = AfterDelete(p)
                   /\ err' = [err EXCEPT ![r] = MkErr("SyntaxError", p)]
                   /\ pc' = [pc EXCEPT ![r] = "catch"]
                   /\ UNCHANGED <<compiles, sinceChg>>
              ELSE /\ file_cache' = [AfterDelete(p) EXCEPT ![p] =
                          NewEntry(st_mtime[r], f.content, compiles[p] + 1)]
                   /\ compiles' = [compiles EXCEPT ![p] = @ + 1]
                   /\ sinceChg' = [sinceChg EXCEPT ![p] = @ + 1]
                   /\ pc' = [pc EXCEPT ![r] = "loaded"]
                   /\ err' = err
    /\ UNCHANGED <<file, rpath, hasCb, st_mtime, val, outcome, cbCalls,
                   timers, evalPending, ran, chg, seen, writes, waited, child>>
    /\ UNCHANGED auxVars

\* the template that a "nest" template of path p includes
Nested(p) == IF p = "a" THEN "b" ELSE "a"

\* the promise of lines 75-85 is still pending: a promise settles once,
\* later calls of resolve or reject change nothing
RaceOpen(r) == pc[r] = "eval"

\* load_template has returned (line 74); lines 75-85 start the timer and
\* run the cached script.  The body runs synchronously up to its first
\* await; runInNewContext's own timeout covers only the evaluation of
\* the script, which yields the async function, not the call of it.
Run(r) ==
    /\ ~Blocked
    /\ pc[r] = "loaded"
    /\ timers' = Append(timers, r)
    /\ LET p == rpath[r]
           e == file_cache[p]
       IN  IF e = NoEntry
           THEN /\ err' = [err EXCEPT ![r] = MkErr("TypeError", p)]
                /\ pc' = [pc EXCEPT ![r] = "catch"]
                /\ UNCHANGED <<val, evalPending, ran, rpath, hasCb, waited, child>>
           ELSE IF e.src = "nest"
           THEN /\ ran' = [ran EXCEPT ![r] = e]
                /\ \E c \in Renders :
                     /\ pc[c] = "idle"
                     /\ \A q \in Renders : q < c => pc[q] # "idle"
                     /\ pc' = [pc EXCEPT ![r] = "eval", ![c] = "lock"]
                     /\ rpath' = [rpath EXCEPT ![c] = Nested(p)]
                     /\ hasCb' = [hasCb EXCEPT ![c] = FALSE]
                     /\ waited' = [waited EXCEPT ![c] = holder[Nested(p)] # 0]
                     /\ child' = [child EXCEPT ![r] = c]
                /\ UNCHANGED <<val, err, evalPending>>
           ELSE /\ ran' = [ran EXCEPT ![r] = e]
                /\ UNCHANGED <<rpath, hasCb, waited, child>>
                /\ CASE e.src \in {"v1", "v2"} ->
                          /\ val' = [val EXCEPT ![r] = Output(e.src)]
                          /\ pc' = [pc EXCEPT ![r] = "deliver"]
                          /\ UNCHANGED <<err, evalPending>>
                     [] e.src = "throw" ->
                          /\ err' = [err EXCEPT ![r] = MkErr("Thrown", p)]
                          /\ pc' = [pc EXCEPT ![r] = "catch"]
                          /\ UNCHANGED <<val, evalPending>>
                     [] e.src = "str" ->
                          /\ err' = [err EXCEPT ![r] = MkErr("NonError", p)]
                          /\ pc' = [pc EXCEPT ![r] = "catch"]
                          /\ UNCHANGED <<val, evalPending>>
                     [] e.src = "slow" ->
                          /\ evalPending' = [evalPending EXCEPT ![r] = TRUE]
                          /\ pc' = [pc EXCEPT ![r] = "eval"]
                          /\ UNCHANGED <<val, err>>
                     [] OTHER ->
                          /\ pc' = [pc EXCEPT ![r] = "spin"]
                          /\ UNCHANGED <<val, err, evalPending>>
    /\ UNCHANGED <<file, file_cache, holder, st_mtime, outcome, cbCalls,
                   compiles, chg, sinceChg, seen, writes>>
    /\ UNCHANGED auxVars

\* the nested include awaited by the template of r has settled (line
\* 57-58 returned its promise): the body goes on and completes, or
\* rejects with the error the nested render threw
Resume(r) ==
    /\ ~Blocked
    /\ ChildSettled(r)
    /\ IF outcome[child[r]].kind = "resolved"
       THEN /\ val' = [val EXCEPT ![r] = Output(ran[r].src)]
            /\ pc' = [pc EXCEPT ![r] = "deliver"]
            /\ err' = err
       ELSE /\ err' = [err EXCEPT ![r] = outcome[child[r]].err]
            /\ pc' = [pc EXCEPT ![r] = "catch"]
            /\ val' = val
    /\ UNCHANGED <<file, file_cache, holder, rpath, hasCb, st_mtime, outcome,
                   cbCalls, timers, evalPending, ran, compiles, chg, sinceChg,
                   seen, writes, waited, child>>
    /\ UNCHANGED auxVars

\* the setTimeout callback of line 76 runs: timers of equal delay fire in
\* the order they were set; it rejects with an error naming filepath
TimerFire(r) ==
    /\ Idle
    /\ timers # <<>>
    /\ r = Head(timers)
    /\ timers' = Tail(timers)
    /\ IF RaceOpen(r)
       THEN /\ err' = [err EXCEPT ![r] = MkErr("Timeout", rpath[r])]
            /\ pc' = [pc EXCEPT ![r] = "catch"]
       ELSE UNCHANGED <<err, pc>>
    /\ UNCHANGED <<file, file_cache, holder, rpath, hasCb, st_mtime, val,
                   outcome, cbCalls, evalPending, ran, compiles, chg,
                   sinceChg, seen, writes, waited, child>>
    /\ UNCHANGED auxVars

\* what the template body awaited resolves and the body completes:
\* .then(resolve) of line 84
EvalDone(r) ==
    /\ Idle
    /\ evalPending[r]
    /\ evalPending' = [evalPending EXCEPT ![r] = FALSE]
    /\ IF RaceOpen(r)
       THEN /\ val' = [val EXCEPT ![r] = Output(ran[r].src)]
            /\ pc' = [pc EXCEPT ![r] = "deliver"]
       ELSE UNCHANGED <<val, pc>>
    /\ UNCHANGED <<file, file_cache, holder, rpath, hasCb, st_mtime, err,
                   outcome, cbCalls, timers, ran, compiles, chg, sinceChg,
                   seen, writes, waited, child>>
    /\ UNCHANGED auxVars

Resolved(v) == [kind |-> "resolved", val |-> v, err |-> NoErr]
Rejected(e) == [kind |-> "rejected", val |-> "none", err |-> e]
CbCall(e, v) == [err |-> e, res |-> v]

\* lines 86-89: the result goes to the callback, or is returned.  The
\* callback is the caller's code: it returns or throws.
Deliver(r) ==
    /\ ~Blocked
    /\ pc[r] = "deliver"
    /\ IF hasCb[r]
       THEN /\ cbCalls' = [cbCalls EXCEPT ![r] = Append(@, CbCall(NoErr, val[r]))]
            /\ \E throws \in BOOLEAN :
                 IF throws
                 THEN /\ err' = [err EXCEPT ![r] = MkErr("CbError", rpath[r])]
                      /\ pc' = [pc EXCEPT ![r] = "catch"]
                      /\ outcome' = outcome
                 ELSE /\ outcome' = [outcome EXCEPT ![r] = Resolved("cbret")]
                      /\ pc' = [pc EXCEPT ![r] = "done"]
                      /\ err' = err
       ELSE /\ outcome' = [outcome EXCEPT ![r] = Resolved(val[r])]
            /\ pc' = [pc EXCEPT ![r] = "done"]
            /\ UNCHANGED <<cbCalls, err>>
    /\ UNCHANGED <<file, file_cache, holder, rpath, hasCb, st_mtime, val,
                   timers, evalPending, ran, compiles, chg, sinceChg, seen,
                   writes, waited, child>>
    /\ UNCHANGED auxVars

\* lines 90-101: error.stack is filtered (a value without a stack makes
\* error.stack.split throw a TypeError out of the catch block), then the
\* error goes to the callback, or is rethrown
Catch(r) ==
    /\ ~Blocked
    /\ pc[r] = "catch"
    /\ pc' = [pc EXCEPT ![r] = "done"]
    /\ IF ~err[r].stack
       THEN /\ outcome' = [outcome EXCEPT ![r] =
                              Rejected(MkErr("TypeError", rpath[r]))]
            /\ cbCalls' = cbCalls
       ELSE IF hasCb[r]
       THEN /\ cbCalls' = [cbCalls EXCEPT ![r] = Append(@, CbCall(err[r], "none"))]
            /\ \E throws \in BOOLEAN :
                 outcome' = [outcome EXCEPT ![r] =
                     IF throws THEN Rejected(MkErr("CbError", rpath[r]))
                               ELSE Resolved("cbret")]
       ELSE /\ outcome' = [outcome EXCEPT ![r] = Rejected(err[r])]
            /\ cbCalls' = cbCalls
    /\ UNCHANGED <<file, file_cache, holder, rpath, hasCb, st_mtime, val,
                   err, timers, evalPending, ran, compiles, chg, sinceChg,
                   seen, writes, waited, child>>
    /\ UNCHANGED auxVars

\* ------------------------------------------------------------ files
\* Something outside the engine writes, touches, creates or removes the
\* template file.  chg records whether the write changed both the content
\* and the mtime of a cached template to a text that compiles while no
\* load of that path was between its stat and its readFile.
SetFile(p, f) ==
    /\ ~MicroPending
    /\ writes < MaxWrites
    /\ writes' = writes + 1
    /\ f # file[p]
    /\ file' = [file EXCEPT ![p] = f]
    /\ chg' = [chg EXCEPT ![p] =
          IF /\ file_cache[p] # NoEntry
             /\ f.exists
             /\ f.mtime # file_cache[p].mtime
             /\ f.content # file_cache[p].src
             /\ Compilable(f.content)
             /\ \A r \in Renders : ~(rpath[r] = p /\ pc[r] = "read")
          THEN "clean" ELSE "other"]
    /\ sinceChg' = [sinceChg EXCEPT ![p] = 0]
    /\ seen' = [r \in Renders |-> IF rpath[r] = p THEN FALSE ELSE seen[r]]
    /\ UNCHANGED <<file_cache, holder, pc, rpath, hasCb, st_mtime, val, err,
                   outcome, cbCalls, timers, evalPending, ran, compiles,
                   waited, child>>
    /\ UNCHANGED auxVars

\* ------------------------------------------------------------ Spec
\* The cache and lock protocol: concurrent renders of templates that
\* render at once, while the files are rewritten, touched, broken,
\* removed and created under them.
CacheContents == {"none", "v1", "v2", "bad"}

\* the template that is rendered and written to
Written == {"a"}

\* params.preload (lines 43-48): the load_template call made for a
\* preloaded template at construction has compiled the file as it is
Preloaded(p) == [mtime |-> file[p].mtime, src |-> file[p].content, id |-> 1]

\* the engine after construction, without preload or with the written
\* template preloaded, its file being there and valid
Init ==
    /\ NormIdle
    /\ PathIdle
    /\ CtxIdle
    /\ file \in {fs \in [Paths -> Files] :
                    \A p \in Paths :
                        fs[p].content \in (IF p \in Written THEN CacheContents
                                           ELSE {"none"})}
    /\ RendersIdle
    /\ \E pre \in SUBSET {p \in Written : file[p].exists /\ Compilable(file[p].content)} :
          /\ file_cache = [p \in Paths |-> IF p \in pre THEN Preloaded(p) ELSE NoEntry]
          /\ compiles = [p \in Paths |-> IF p \in pre THEN 1 ELSE 0]

Next ==
    \/ \E r \in Renders, p \in Written : Render(r, p, FALSE)
    \/ \E r \in Renders : Acquire(r)
    \/ \E r \in Renders : StatDone(r)
    \/ \E r \in Renders : ReadDone(r)
    \/ \E r \in Renders : Run(r)
    \/ \E r \in Renders : Deliver(r)
    \/ \E r \in Renders : Catch(r)
    \/ \E p \in Written : \E f \in {g \in Files : g.content \in CacheContents} :
          SetFile(p, f)

Spec == Init /\ [][Next]_vars

\* ------------------------------------------------------------ SpecRun
\* Evaluation, timeout, delivery: renders of templates of every kind,
\* with and without a callback, the files left alone.
RunInit ==
    /\ InitWith([p \in Paths |-> (Contents \ {"nest"}) \cup {"none"}])
    /\ \A p \in Paths : file[p].mtime <= 1

RunNext ==
    \/ \E r \in 1..MaxRunRenders, p \in Paths, cb \in BOOLEAN : Render(r, p, cb)
    \/ \E r \in Renders : Acquire(r)
    \/ \E r \in Renders : StatDone(r)
    \/ \E r \in Renders : ReadDone(r)
    \/ \E r \in Renders : Run(r)
    \/ \E r \in Renders : TimerFire(r)
    \/ \E r \in Renders : EvalDone(r)
    \/ \E r \in Renders : Deliver(r)
    \/ \E r \in Renders : Catch(r)

SpecRun == RunInit /\ [][RunNext]_vars

\* ------------------------------------------------------------ SpecNest
\* One render of a template that awaits a nested include of the other
\* template, which may be of any kind.
NestInit ==
    /\ InitWith([p \in Paths |-> IF p = "a" THEN {"nest"}
                                 ELSE (Contents \ {"nest"}) \cup {"none"}])
    /\ \A p \in Paths : file[p].mtime <= 1

NestNext ==
    \/ \E cb \in BOOLEAN : Render(1, "a", cb)
    \/ \E r \in Renders : Acquire(r)
    \/ \E r \in Renders : StatDone(r)
    \/ \E r \in Renders : ReadDone(r)
    \/ \E r \in Renders : Run(r)
    \/ \E r \in Renders : Resume(r)
    \/ \E r \in Renders : TimerFire(r)
    \/ \E r \in Renders : EvalDone(r)
    \/ \E r \in Renders : Deliver(r)
    \/ \E r \in Renders : Catch(r)

SpecNest == NestInit /\ [][NestNext]_vars

\* ------------------------------------------------ SpecOpts and SpecCtx
\* faulty variant: the spread with the left operand winning
Spread_LeftWins(a, b) ==
    [v |-> [k \in OptKeys |-> IF a.v[k] # "undef" THEN a.v[k] ELSE b.v[k]],
     bag |-> IF a.bag # 0 THEN a.bag ELSE b.bag]

\* {...a, ...b}
Spread(a, b) ==
    [v |-> [k \in OptKeys |-> IF b.v[k] # "undef" THEN b.v[k] ELSE a.v[k]],
     bag |-> IF b.bag # 0 THEN b.bag ELSE a.bag]

\* the context object: {...always_inject, ...options, include, set, get,
\* import_vars, log, ...}; the helpers come last
BuildContext(inj, opts) ==
    LET m == Spread(inj, opts)
    IN  [m EXCEPT !.v = [k \in OptKeys |->
                            IF k \in HelperNames THEN "helper" ELSE m.v[k]]]

\* the locals and __exports objects are made by {}: a property that is
\* not an own property is looked up on Object.prototype
JSRead(obj, key) ==
    IF obj[key] # "absent" THEN obj[key]
    ELSE IF key = "constructor" THEN "Object" ELSE "undefined"

JSWrite(obj, key, v) == [obj EXCEPT ![key] = v]

NextFree(c) ==
    /\ s_state[c] = "free"
    /\ \A q \in Sessions : q < c => s_state[q] # "free"

\* lines 50-73 of one include call
Begin(c, kind, parent, opts, over) ==
    /\ s_kind' = [s_kind EXCEPT ![c] = kind]
    /\ s_parent' = [s_parent EXCEPT ![c] = parent]
    /\ s_opts' = [s_opts EXCEPT ![c] = opts]
    /\ s_over' = [s_over EXCEPT ![c] = over]
    /\ s_ctx' = [s_ctx EXCEPT ![c] = BuildContext(always_inject, opts)]
    /\ s_state' = [s_state EXCEPT ![c] = "run"]
    /\ locals' = [locals EXCEPT ![c] = EmptyObject]

\* the host calls include(filename, options)
StartTop(c, opts) ==
    /\ NextFree(c)
    /\ Begin(c, "top", 0, opts, NoOpts)
    /\ UNCHANGED <<always_inject, bags, own, ret, calls>>
    /\ UNCHANGED <<mainVars, normVars, pathVars>>

\* line 57-58: the template of session p calls include(name, over)
IncludeHelper(p, c, over) ==
    /\ s_state[p] = "run"
    /\ NextFree(c)
    /\ Begin(c, "include", p, Spread(s_opts[p], over), over)
    /\ UNCHANGED <<always_inject, bags, own, ret, calls>>
    /\ UNCHANGED <<mainVars, normVars, pathVars>>

\* lines 64-66: the template of session p calls import_vars(name)
ImportVars(p, c) ==
    /\ s_state[p] = "run"
    /\ NextFree(c)
    /\ bags' = [bags EXCEPT ![c] = EmptyObject]
    /\ own' = [own EXCEPT ![c] = EmptyObject]
    /\ Begin(c, "import", p, Spread(s_opts[p], [NoOpts EXCEPT !.bag = c]), NoOpts)
    /\ UNCHANGED <<always_inject, ret, calls>>
    /\ UNCHANGED <<mainVars, normVars, pathVars>>

\* lines 59-62: set(key, val)
SetHelper(c, key, v) ==
    /\ s_state[c] = "run"
    /\ calls < MaxCalls
    /\ locals' = [locals EXCEPT ![c] = JSWrite(locals[c], key, v)]
    /\ ret' = [op |-> "set", sess |-> c, key |-> key, val |-> ""]
    /\ calls' = calls + 1
    /\ UNCHANGED <<always_inject, s_kind, s_parent, s_opts, s_over, s_ctx,
                   s_state, bags, own>>
    /\ UNCHANGED <<mainVars, normVars, pathVars>>

\* line 63: get(key)
GetHelper(c, key) ==
    /\ s_state[c] = "run"
    /\ calls < MaxCalls
    /\ ret' = [op |-> "get", sess |-> c, key |-> key,
               val |-> JSRead(locals[c], key)]
    /\ calls' = calls + 1
    /\ UNCHANGED <<always_inject, s_kind, s_parent, s_opts, s_over, s_ctx,
                   s_state, locals, bags, own>>
    /\ UNCHANGED <<mainVars, normVars, pathVars>>

\* line 28: export_var(key, val) reads the name __exports of its context
ExportVar(c, key, v) ==
    /\ s_state[c] = "run"
    /\ calls < MaxCalls
    /\ calls' = calls + 1
    /\ IF s_ctx[c].bag = 0
       THEN /\ ret' = [op |-> "export_var", sess |-> c, key |-> key,
                       val |-> "ReferenceError"]
            /\ s_state' = [s_state EXCEPT ![c] = "failed"]
            /\ UNCHANGED <<bags, own>>
       ELSE /\ ret' = [op |-> "export_var", sess |-> c, key |-> key, val |-> ""]
            /\ bags' = [bags EXCEPT ![s_ctx[c].bag] = JSWrite(@, key, v)]
            /\ own' = IF s_ctx[c].bag = c
                      THEN [own EXCEPT ![c] = JSWrite(@, key, v)]
                      ELSE own
            /\ UNCHANGED s_state
    /\ UNCHANGED <<always_inject, s_kind, s_parent, s_opts, s_over, s_ctx, locals>>
    /\ UNCHANGED <<mainVars, normVars, pathVars>>

\* the template's text is complete: line 86-89; the includes it awaited
\* have settled
Finish(c) ==
    /\ s_state[c] = "run"
    /\ \A d \in Sessions : s_parent[d] = c => s_state[d] # "run"
    /\ s_state' = [s_state EXCEPT ![c] = "done"]
    /\ UNCHANGED <<always_inject, s_kind, s_parent, s_opts, s_over, s_ctx,
                   locals, bags, own, ret, calls>>
    /\ UNCHANGED <<mainVars, normVars, pathVars>>

CtxInit ==
    /\ MainIdle
    /\ NormIdle
    /\ PathIdle
    /\ CtxStart

CtxNext ==
    \/ \E c \in Sessions : StartTop(c, NoOpts)
    \/ \E p, c \in Sessions : IncludeHelper(p, c, NoOpts)
    \/ \E p, c \in Sessions : ImportVars(p, c)
    \/ \E c \in Sessions, k \in LocalKeys, v \in Vals : SetHelper(c, k, v)
    \/ \E c \in Sessions, k \in LocalKeys : GetHelper(c, k)
    \/ \E c \in Sessions, k \in LocalKeys, v \in Vals : ExportVar(c, k, v)
    \/ \E c \in Sessions : Finish(c)

SpecCtx == CtxInit /\ [][CtxNext]_vars

Injects == {[v |-> f, bag |-> 0] : f \in [OptKeys -> {"undef", "inj"}]}
TopOptions ==
    {[v |-> f, bag |-> 0] :
        f \in {g \in [OptKeys -> {"undef", "0", "2"}] : g["x"] # "2" /\ g["y"] # "0" /\ g["log"] # "2"}}
Overrides == {[v |-> f, bag |-> 0] : f \in [OptKeys -> {"undef", "1"}]}

OptsInit ==
    /\ MainIdle
    /\ NormIdle
    /\ PathIdle
    /\ always_inject \in Injects
    /\ s_kind = [c \in Sessions |-> "free"]
    /\ s_parent = [c \in Sessions |-> 0]
    /\ s_opts = [c \in Sessions |-> NoOpts]
    /\ s_over = [c \in Sessions |-> NoOpts]
    /\ s_ctx = [c \in Sessions |-> NoOpts]
    /\ s_state = [c \in Sessions |-> "free"]
    /\ locals = [c \in Sessions |-> EmptyObject]
    /\ bags = [c \in Sessions |-> EmptyObject]
    /\ own = [c \in Sessions |-> EmptyObject]
    /\ ret = NoRet
    /\ calls = 0

OptsNext ==
    \/ \E c \in Sessions, o \in TopOptions : StartTop(c, o)
    \/ \E p, c \in Sessions, o \in Overrides : IncludeHelper(p, c, o)
    \/ \E p, c \in Sessions : ImportVars(p, c)

SpecOpts == OptsInit /\ [][OptsNext]_vars

\* ------------------------------------------------------------ SpecPath
\* filename.endsWith(suffix)
EndsWith(filename, suffix) ==
    /\ Len(suffix) <= Len(filename)
    /\ SubSeq(filename, Len(filename) - Len(suffix) + 1, Len(filename)) = suffix

\* faulty variant: the extension is appended whatever the name
WithExtension_Always(filename, ext) == filename \o <<".">> \o ext

\* filename.endsWith(ext) ? filename : `${filename}.${ext}`
WithExtension(filename, ext) ==
    IF EndsWith(filename, ext) THEN filename ELSE filename \o <<".">> \o ext

\* path.resolve(dir, name): an absolute name stands for itself, a
\* relative one is looked up in dir
Resolve(dir, abs, filename) ==
    [dir |-> IF abs THEN "/" ELSE dir, file |-> filename]

\* line 52: the settings of this call
Settings(override) ==
    IF override = NoSettings THEN [extension |-> extension, views |-> views]
    ELSE override

PathInit ==
    /\ MainIdle
    /\ NormIdle
    /\ CtxIdle
    /\ extension \in Exts
    /\ views = "/v"
    /\ p_op = "none"
    /\ p_name = <<>>
    /\ p_abs = FALSE
    /\ p_settings = [extension |-> extension, views |-> views]
    /\ filepath = NoPath

\* lines 52-53 of include(filename, options)
ResolveInclude(filename, abs, override) ==
    /\ p_op' = "include"
    /\ p_name' = filename
    /\ p_abs' = abs
    /\ p_settings' = Settings(override)
    /\ filepath' = Resolve(p_settings'.views, abs,
                           WithExtension(filename, p_settings'.extension))
    /\ UNCHANGED <<extension, views, mainVars, normVars, ctxVars>>

\* line 45: one name of params.preload
ResolvePreload(filename, abs) ==
    /\ p_op' = "preload"
    /\ p_name' = filename
    /\ p_abs' = abs
    /\ p_settings' = [extension |-> extension, views |-> views]
    /\ filepath' = Resolve(views, abs, WithExtension(filename, extension))
    /\ UNCHANGED <<extension, views, mainVars, normVars, ctxVars>>

PathNext ==
    \/ \E n \in Names, abs \in BOOLEAN, o \in {NoSettings} \cup PathSettings :
          ResolveInclude(n, abs, o)
    \/ \E n \in Names, abs \in BOOLEAN : ResolvePreload(n, abs)

SpecPath == PathInit /\ [][PathNext]_vars

\* ------------------------------------------------------------ SpecNorm
\* The filter of lines 91-96 on error.stack.  A line of the trace is
\* abstracted by the marker texts it contains:
\*   E  the engine's file name as path.basename(__filename) gives it
\*   U  that name in another letter case
\*   C  Script.runInContext        N  Script.runInNewContext
\* Lines hold no line break, so split("\n") and join("\n") are inverse
\* and the trace is kept as the sequence of its lines.
Markers == {"E", "U", "C", "N"}
Lines == SUBSET Markers
MaxStack == 3
MaxLevels == 2

Stacks == UNION {[1..n -> Lines] : n \in 1..MaxStack}

\* line.toLowerCase(): it also lowers the two Script names
ToLowerCase(line) ==
    {IF t = "U" THEN "E" ELSE IF t = "C" THEN "c" ELSE IF t = "N" THEN "n" ELSE t :
        t \in line}

\* line.includes(text)
Includes(line, text) == text \in line

\* faulty variant: the filter without the index === 0 exemption
KeepLine_NoFirst(line, index) ==
    /\ ~Includes(ToLowerCase(line), "E")
    /\ ~Includes(line, "C")
    /\ ~Includes(line, "N")

\* the predicate of lines 92-95; index counts from 0
KeepLine(line, index) ==
    \/ index = 0
    \/ /\ ~Includes(ToLowerCase(line), "E")
       /\ ~Includes(line, "C")
       /\ ~Includes(line, "N")

RECURSIVE FilterFrom(_, _)
FilterFrom(lines, i) ==
    IF i > Len(lines) THEN <<>>
    ELSE (IF KeepLine(lines[i], i - 1) THEN <<lines[i]>> ELSE <<>>)
         \o FilterFrom(lines, i + 1)

\* error.stack.split("\n").filter(...).join("\n")
Normalize(st) == FilterFrom(st, 1)

\* an embedded expression has thrown an Error with some trace
NormInit ==
    /\ MainIdle
    /\ PathIdle
    /\ CtxIdle
    /\ stack0 \in Stacks
    /\ stack = stack0
    /\ level = 0

\* the catch block of one include level filters the trace and rethrows
\* the same error object to the including template's render
CatchNormalize ==
    /\ level < MaxLevels
    /\ stack' = Normalize(stack)
    /\ level' = level + 1
    /\ UNCHANGED <<stack0, mainVars, pathVars, ctxVars>>

NormNext == CatchNormalize

SpecNorm == NormInit /\ [][NormNext]_vars

\* the handlers of the engine, as opposed to the host's include calls and
\* the writes to the files
EngineNext ==
    \/ \E r \in Renders : Acquire(r)
    \/ \E r \in Renders : StatDone(r)
    \/ \E r \in Renders : ReadDone(r)
    \/ \E r \in Renders : Run(r)
    \/ \E r \in Renders : Deliver(r)
    \/ \E r \in Renders : Catch(r)

\* ------------------------------------------------------------ SpecLock
\* Loads that fail: renders of a template whose file is missing, not
\* valid, or removed while a load is under way.
LockInit ==
    InitWith([p \in Paths |-> IF p \in Written THEN {"none", "v1", "bad"}
                              ELSE {"none"}])

LockNext ==
    \/ \E r \in Renders, p \in Written : Render(r, p, FALSE)
    \/ EngineNext
    \/ \E p \in Written : SetFile(p, NoFile)

SpecLock == LockInit /\ [][LockNext]_vars

\* the event loop keeps running the handlers that are ready; the host
\* and the file system may stop at any time
FairLock == SpecLock /\ WF_vars(EngineNext)

\* the event loop keeps running the handlers that are ready
FairRun == SpecRun /\ WF_vars(RunNext)

\* C1: renders of one path that has no cache entry yet, the file valid
\* and unmodified throughout, compile it exactly once in total, however
\* many they are and however they interleave: never more than one entry
\* is inserted, and one has been inserted as soon as a load has returned.
C1_CompileOnce ==
    \A p \in Paths :
        (chg[p] = "none" /\ file[p].exists /\ Compilable(file[p].content)) =>
            /\ compiles[p] <= 1
            /\ \A r \in Renders :
                 (rpath[r] = p /\ pc[r] \notin {"idle", "lock", "stat", "read"}) =>
                     /\ compiles[p] = 1
                     /\ file_cache[p] # NoEntry

\* two renders of the same unmodified path are done, the second one had
\* to wait for the lock the first one held, and one compile happened
C1_Witness ==
    \E p \in Paths : \E r1, r2 \in Renders :
        /\ r1 # r2 /\ rpath[r1] = p /\ rpath[r2] = p
        /\ chg[p] = "none"
        /\ waited[r2]
        /\ outcome[r1].kind = "resolved" /\ outcome[r2].kind = "resolved"
        /\ compiles[p] = 1

\* C2: load_template takes the compile branch exactly when there is no
\* entry or the stat'd mtime differs from the stored one; an entry is
\* replaced or dropped only by a load whose stat'd mtime differs from it;
\* a render executes the entry stored under the mtime it stat'd, and its
\* text is that unit's, whatever the file holds by then.
C2_Step ==
    /\ \A r \in Renders :
         (pc[r] = "stat" /\ pc'[r] \in {"read", "loaded"}) =>
             ((pc'[r] = "read") <=>
                 (\/ file_cache[rpath[r]] = NoEntry
                  \/ file[rpath[r]].mtime # file_cache[rpath[r]].mtime))
    /\ \A p \in Paths :
         (file_cache'[p] # file_cache[p] \/ compiles'[p] # compiles[p]) =>
             \E r \in Renders :
                 /\ pc[r] = "read" /\ rpath[r] = p
                 /\ file_cache[p] = NoEntry \/ st_mtime[r] # file_cache[p].mtime
    /\ \A r \in Renders :
         ran'[r] # ran[r] =>
             /\ ran'[r] = file_cache[rpath[r]]
             /\ ran'[r].mtime = st_mtime[r]
    /\ \A r \in Renders :
         (outcome'[r] # outcome[r] /\ outcome'[r].kind = "resolved" /\ ~hasCb[r]) =>
             outcome'[r].val = Output(ran[r].src)

C2_RecompileIffMtimeDiffers == [][C2_Step]_vars

\* the file was rewritten under the same mtime after the compile; a
\* render that stat'd it afterwards is done with the old text, and no
\* second compile happened
C2_Witness ==
    \E r \in Renders :
        LET p == rpath[r] IN
        /\ pc[r] = "done" /\ seen[r]
        /\ outcome[r].kind = "resolved"
        /\ file[p].exists /\ file[p].mtime = ran[r].mtime
        /\ Compilable(file[p].content)
        /\ file[p].content # ran[r].src
        /\ outcome[r].val = Output(ran[r].src)
        /\ compiles[p] = 1

\* C3: after the content and the mtime of a cached template were both
\* changed (to a text that compiles, no load of it being between its
\* stat and its readFile), and with no further change, every render that
\* stats the file afterwards runs the new text, the change causes one
\* recompile in total, and the entry is the new one under the new mtime.
C3_ReloadOnce ==
    \A p \in Paths :
        chg[p] = "clean" =>
            /\ sinceChg[p] <= 1
            /\ \A r \in Renders :
                 (rpath[r] = p /\ seen[r] /\ pc[r] \notin {"stat", "read"}) =>
                     /\ sinceChg[p] = 1
                     /\ file_cache[p] = [mtime |-> file[p].mtime,
                                         src |-> file[p].content,
                                         id |-> compiles[p]]
                     /\ ran[r] # NoEntry => ran[r] = file_cache[p]
                     /\ outcome[r].kind = "resolved" =>
                            outcome[r].val = Output(file[p].content)

\* a cached template was changed, and two renders issued afterwards are
\* done with the new text after one recompile
C3_Witness ==
    \E p \in Paths : \E r1, r2 \in Renders :
        /\ r1 # r2 /\ rpath[r1] = p /\ rpath[r2] = p
        /\ chg[p] = "clean" /\ seen[r1] /\ seen[r2]
        /\ outcome[r1].kind = "resolved" /\ outcome[r2].kind = "resolved"
        /\ outcome[r1].val = Output(file[p].content)
        /\ sinceChg[p] = 1 /\ compiles[p] = 2

\* C4: a render whose evaluation has not completed (the body awaits, or
\* loops) eventually ends, and ends with the timeout error naming its own
\* path unless the evaluation completed first; once its timeout error was
\* raised the caller gets no rendered text, also when the evaluation
\* completes afterwards.
C4_TimeoutEventually ==
    /\ \A r \in Renders :
         (pc[r] \in {"eval", "spin"}) ~>
             (/\ pc[r] = "done"
              /\ val[r] # "none" \/ err[r] = MkErr("Timeout", rpath[r]))
    /\ [](\A r \in Renders :
            err[r].type = "Timeout" =>
                /\ err[r].path = rpath[r]
                /\ outcome[r].val \notin Contents
                /\ \A i \in 1..Len(cbCalls[r]) : cbCalls[r][i].res = "none")

\* C5: every failure of a render (stat or read failure, compile failure,
\* a throwing expression, timeout) is handed to the caller: without a
\* callback the promise rejects with it; with a callback it is the first
\* argument of a callback call and the promise does not reject with it;
\* a result goes to the callback as (null, result).
C5_FailureHanded ==
    \A r \in Renders :
        pc[r] = "done" =>
            /\ (err[r].type \in {"IOError", "SyntaxError", "Thrown", "NonError", "Timeout"}) =>
                 IF hasCb[r]
                 THEN /\ \E i \in 1..Len(cbCalls[r]) : cbCalls[r][i] = CbCall(err[r], "none")
                      /\ outcome[r] # Rejected(err[r])
                 ELSE outcome[r] = Rejected(err[r])
            /\ (hasCb[r] /\ val[r] # "none") => cbCalls[r][1] = CbCall(NoErr, val[r])

\* C7: get(k) returns the value of the most recent set(k, v) of the same
\* render call, or undefined when k was never set in that call, and set
\* returns the empty string.
C7_GetReturnsLastSet ==
    /\ ret.op = "set" => ret.val = ""
    /\ ret.op = "get" =>
          ret.val = (IF locals[ret.sess][ret.key] # "absent"
                     THEN locals[ret.sess][ret.key] ELSE "undefined")

\* C8: when the render started by import_vars has completed, its bag
\* holds exactly the pairs that render's own template passed to
\* export_var (last value per key) and no other key.
C8_ImportedBag ==
    \A c \in Sessions :
        (s_kind[c] = "import" /\ s_state[c] = "done") => bags[c] = own[c]

\* C9: every ordinary name of a context has the value of the call's
\* options when they name it and of the injected globals otherwise; the
\* options of a nested include are the parent's options with the
\* overrides winning, at every depth.
C9_OptionPrecedence ==
    \A c \in Sessions :
        s_state[c] # "free" =>
            /\ \A k \in OptKeys \ HelperNames :
                  s_ctx[c].v[k] = (IF s_opts[c].v[k] # "undef" THEN s_opts[c].v[k]
                                   ELSE always_inject.v[k])
            /\ s_kind[c] = "include" =>
                  \A k \in OptKeys :
                      s_opts[c].v[k] = (IF s_over[c].v[k] # "undef" THEN s_over[c].v[k]
                                        ELSE s_opts[s_parent[c]].v[k])

\* a parent called with {x: 0, y: 2} includes a child with {x: 1}, which
\* includes a grandchild with {y: 1}
C9_Witness ==
    /\ s_kind = <<"top", "include", "include">>
    /\ s_parent = <<0, 1, 2>>
    /\ s_opts[1].v["x"] = "0" /\ s_opts[1].v["y"] = "2"
    /\ s_over[2].v["x"] = "1" /\ s_over[2].v["y"] = "undef"
    /\ s_ctx[2].v["x"] = "1" /\ s_ctx[2].v["y"] = "2"
    /\ s_over[3].v["x"] = "undef" /\ s_over[3].v["y"] = "1"
    /\ s_ctx[3].v["x"] = "1" /\ s_ctx[3].v["y"] = "1"
    /\ always_inject.v["x"] = "inj"

\* a line names the engine's file (in any letter case) or one of the two
\* Script methods
RefersToEngine(line) ==
    "E" \in line \/ "U" \in line \/ "C" \in line \/ "N" \in line

NotEngineLine(line) == ~RefersToEngine(line)

\* C6: the trace surfaced after one or more include levels keeps line 0
\* unchanged, has no other line naming the engine's file or
\* Script.runInContext / Script.runInNewContext, and keeps every other
\* line in its original order; a further level changes nothing.
C6_TraceFiltered ==
    level >= 1 =>
        /\ Len(stack) >= 1
        /\ stack[1] = stack0[1]
        /\ \A i \in 2..Len(stack) : ~RefersToEngine(stack[i])
        /\ stack = <<stack0[1]>> \o SelectSeq(Tail(stack0), NotEngineLine)

\* an error whose message line names the engine and whose trace holds an
\* engine frame between two other frames has passed two levels
C6_Witness ==
    /\ level = 2
    /\ Len(stack0) = 3 /\ Len(stack) = 2
    /\ RefersToEngine(stack0[1])
    /\ RefersToEngine(stack0[2])
    /\ stack[2] = stack0[3]

\* the name ends in the characters of the extension
CarriesExt(filename, ext) ==
    \E k \in 0..Len(filename) : filename = SubSeq(filename, 1, k) \o ext

InSection(p) == {r \in Renders : rpath[r] = p /\ pc[r] \in {"stat", "read"}}

\* C11: at most one load_template invocation per path is between lock
\* acquisition and release, and it is the one the mutex was granted to.
C11_MutualExclusion ==
    \A p \in Paths :
        /\ Cardinality(InSection(p)) <= 1
        /\ \A r \in InSection(p) : holder[p] = r

\* the template is cached; after a change of its file one render is at
\* its readFile while the other waits for the mutex
C11_Witness ==
    \E r1, r2 \in Renders :
        /\ r1 # r2 /\ rpath[r1] = rpath[r2]
        /\ pc[r1] = "read" /\ file_cache[rpath[r1]] # NoEntry
        /\ pc[r2] = "lock" /\ waited[r2]

\* C12: the mutex of a path is held only by a load that is inside its
\* section, so every exit, failing or not, has released it; a held mutex
\* is eventually free again, and every render that waits for it
\* eventually gets it, whatever loads of the path fail meanwhile.
C12_LockReleased ==
    /\ [](\A p \in Paths :
            holder[p] # 0 => (rpath[holder[p]] = p /\ pc[holder[p]] \in {"stat", "read"}))
    /\ \A p \in Paths : (holder[p] # 0) ~> (holder[p] = 0)
    /\ \A r \in Renders : (pc[r] = "lock") ~> (pc[r] = "stat")

\* a load of a path has failed on its readFile or its compile, and the
\* render that had to wait for the mutex has it
C12_Witness ==
    \E r1, r2 \in Renders :
        /\ r1 # r2 /\ rpath[r1] = rpath[r2]
        /\ pc[r1] = "done" /\ err[r1].type \in {"IOError", "SyntaxError"}
        /\ st_mtime[r1] # 0
        /\ waited[r2] /\ holder[rpath[r2]] = r2

\* C13: whenever load_template inserts an entry, the mtime it stores is
\* the modification time of the file version whose content it compiled.
C13_Step ==
    \A p \in Paths :
        (file_cache'[p] # file_cache[p] /\ file_cache'[p] # NoEntry) =>
            /\ file_cache'[p].src = file[p].content
            /\ file_cache'[p].mtime = file[p].mtime

C13_EntryMatchesFile == [][C13_Step]_vars

\* C14: a load whose compile fails leaves no entry for the path, old or
\* new, and the render fails with the compile error; while there is no
\* entry every load of an existing file goes on to read and compile it,
\* and a load that reads a valid text stores it and returns, whatever
\* the mtime.
C14_Step ==
    \A r \in Renders :
        LET p == rpath[r] IN
        /\ (pc[r] = "read" /\ pc'[r] # "read" /\ file[p].exists
                /\ ~Compilable(file[p].content)) =>
              /\ file_cache'[p] = NoEntry
              /\ pc'[r] = "catch" /\ err'[r] = MkErr("SyntaxError", p)
        /\ (pc[r] = "catch" /\ pc'[r] = "done" /\ err[r].type = "SyntaxError") =>
              outcome'[r] = Rejected(err[r])
        /\ (pc[r] = "stat" /\ pc'[r] # "stat" /\ file[p].exists
                /\ file_cache[p] = NoEntry) =>
              pc'[r] = "read"
        /\ (pc[r] = "read" /\ pc'[r] # "read" /\ file[p].exists
                /\ Compilable(file[p].content)) =>
              /\ file_cache'[p] # NoEntry
              /\ file_cache'[p].src = file[p].content
              /\ pc'[r] = "loaded"

C14_FailureNotCached == [][C14_Step]_vars

\* a render failed on the compile; the file was then made valid without
\* a change of its mtime, and a later render has its text
C14_Witness ==
    \E r1, r2 \in Renders :
        LET p == rpath[r1] IN
        /\ rpath[r2] = p
        /\ pc[r1] = "done" /\ err[r1].type = "SyntaxError"
        /\ outcome[r1] = Rejected(err[r1])
        /\ st_mtime[r2] = st_mtime[r1]
        /\ pc[r2] = "done" /\ outcome[r2] = Resolved(Output(file[p].content))
        /\ file_cache[p].src = file[p].content

\* C15: export_var called in a render whose context has no export bag
\* returns the empty string and does not fail the render.
C15_ExportWithoutBag ==
    (ret.op = "export_var" /\ s_ctx[ret.sess].bag = 0) =>
        /\ ret.val = ""
        /\ s_state[ret.sess] # "failed"

\* C16: the locals of a render change only by that render's own set, and
\* the bag made by an import_vars call is written only by the render
\* that call started.
C16_Step ==
    \A c \in Sessions :
        /\ (s_state[c] # "free" /\ locals'[c] # locals[c]) =>
              (ret'.op = "set" /\ ret'.sess = c /\ calls' # calls)
        /\ (s_kind[c] = "import" /\ bags'[c] # bags[c]) =>
              (ret'.op = "export_var" /\ ret'.sess = c /\ calls' # calls)

C16_SessionPrivate == [][C16_Step]_vars

\* C17: when the template of a render awaits a nested include whose
\* template never resolves, so that the nested render fails with its
\* timeout error, the failure the awaiting render surfaces is that
\* error, naming the nested template's path.
C17_NestedTimeoutNamed ==
    \A r \in Renders :
        (/\ child[r] # 0 /\ pc[r] = "done" /\ pc[child[r]] = "done"
         /\ ran[child[r]].src = "slow"
         /\ err[child[r]] = MkErr("Timeout", rpath[child[r]])) =>
            err[r] = MkErr("Timeout", rpath[child[r]])

\* C18: a callback passed to a render call is never invoked more than
\* once, and once the call has ended with a result or with an error
\* that passed normalisation it has been invoked exactly once.
C18_CallbackOnce ==
    \A r \in Renders :
        hasCb[r] =>
            /\ Len(cbCalls[r]) <= 1
            /\ (pc[r] = "done" /\ (err[r] = NoErr \/ err[r].stack)) =>
                  Len(cbCalls[r]) = 1

\* C19: whatever an embedded expression throws, with or without a stack
\* trace, the render hands that same value to the caller: to the
\* callback when one was passed, by rejection otherwise.
C19_ThrownValueDelivered ==
    \A r \in Renders :
        (pc[r] = "done" /\ err[r].type \in {"Thrown", "NonError"}) =>
            IF hasCb[r]
            THEN \E i \in 1..Len(cbCalls[r]) : cbCalls[r][i].err = err[r]
            ELSE outcome[r] = Rejected(err[r])

\* C20: a render that has returned from load_template and is about to
\* run the script finds an entry for its path, and no render fails on a
\* missing entry.
C20_EntryAtRun ==
    \A r \in Renders :
        /\ pc[r] = "loaded" => file_cache[rpath[r]] # NoEntry
        /\ err[r].type # "TypeError"

\* a render has run the cached template to its end while a concurrent
\* render of the path, after a change of the file, deleted the entry and
\* failed to compile
C20_Witness ==
    \E r1, r2 \in Renders :
        /\ rpath[r1] = rpath[r2]
        /\ pc[r2] = "done" /\ err[r2].type = "SyntaxError" /\ waited[r2]
        /\ pc[r1] = "done" /\ outcome[r1].kind = "resolved"
        /\ ran[r1] # NoEntry /\ st_mtime[r1] # st_mtime[r2]
        /\ file_cache[rpath[r1]] = NoEntry

====
